---- MODULE Spec2Model ----
(***************************************************************************)
(* Model of chart::NyquistSeriesRenderer                                   *)
(* (src/chart/opengl/nyquistseriesrenderer.cpp).                           *)
(*                                                                         *)
(* The render thread runs synchronize() and renderSeries(); a control      *)
(* thread mutates the NyquistPlot that owns the configuration.  Every      *)
(* handler is one action; what the measurement source holds when a pass    *)
(* starts is the input of that pass.                                       *)
(* Floats are kept symbolically: <<s, n, d>> stands for s * sqrt(n / d),   *)
(* <<0, 0, 0>> for NaN.  C++ index k of m_vertices is TLA+ index k + 1.    *)
(***************************************************************************)
EXTENDS Integers, Sequences, FiniteSets, TLC

(* ---- program constants ------------------------------------------------ *)
PointsPerSegment == 12
MaxOctaveBands == 12

(* ---- bounds of the model ---------------------------------------------- *)
MaxPPO == 1
MaxSize == 14
MaxGen == 2
MaxPassPPO == 2

VARIABLES
    parent,                \* what m_item->parent() resolves to
    m_pointsPerOctave,     \* configuration snapshot
    m_coherence,
    m_coherenceThreshold,
    m_vertices,            \* CPU side vertex buffer
    m_refreshBuffers,
    m_vertexBufferId,
    m_vertexArrayId,
    gl,                    \* state of the GL context
    glLog,                 \* GL calls issued by the latest renderSeries()
    last,                  \* what the latest renderSeries() call did
    hist,                  \* history: last configuration copied, passes completed
    handler,               \* the handler that ran last
    crashed                \* the process died on an out-of-bounds write

vars == <<parent, m_pointsPerOctave, m_coherence, m_coherenceThreshold,
          m_vertices, m_refreshBuffers, m_vertexBufferId, m_vertexArrayId,
          gl, glLog, last, hist, handler, crashed>>

(* ---- symbolic floats -------------------------------------------------- *)
RECURSIVE GCD(_, _)
GCD(a, b) == IF b = 0 THEN a ELSE GCD(b, a % b)

Sgn(x) == IF x < 0 THEN -1 ELSE IF x > 0 THEN 1 ELSE 0

NaN == <<0, 0, 0>>
Zero == <<0, 0, 1>>

\* s * sqrt(n / d) in lowest terms; 0/0 is NaN
Root(s, n, d) ==
    IF d = 0 THEN NaN
    ELSE IF n = 0 \/ s = 0 THEN Zero
    ELSE LET g == GCD(n, d) IN <<s, n \div g, d \div g>>

\* the float a / b for integers a and b >= 0
Ratio(a, b) == Root(Sgn(a), a * a, b * b)

ComplexZero == [real |-> Zero, imag |-> Zero]

(* ---- the measurement source (interface of spec section 6) ------------- *)
Sizes == {0, MaxSize}

\* how densely the bins of a source lie: bins per octave
BinsPerOctave == {1, 2}

\* a source that is switched off keeps its data
Sources ==
    {src \in [active : BOOLEAN, size : Sizes, binsPerOctave : BinsPerOctave] :
        /\ ~src.active => src.size = MaxSize
        /\ (~src.active \/ src.size = 0) => src.binsPerOctave = 1}

NoSource == [active |-> FALSE, size |-> MaxSize, binsPerOctave |-> 1]

\* m_source->phase(k): a unit phasor
phase(src, k) ==
    IF k % 4 \in {0, 1} THEN <<1, 0>>
    ELSE IF k % 4 = 2 THEN <<0, 1>> ELSE <<0, -1>>

\* m_source->magnitudeRaw(k)
magnitudeRaw(src, k) == 1 + ((k \div 2) % 2)

\* m_source->coherence(k), in [0, 1]
coherence(src, k) == k % 2

(* ---- NyquistSplineValue ----------------------------------------------- *)
NyquistSplineValue(ph, magnitude) == [m_phase |-> ph, m_magnitude |-> magnitude]

\* a variant that clears the phase only
resetPhaseOnly(value) == [value EXCEPT !.m_phase = <<0, 0>>]

\* NyquistSplineValue::reset
reset(value) == [value EXCEPT !.m_phase = <<0, 0>>, !.m_magnitude = 0]

(* ---- the three callbacks of renderSeries ------------------------------ *)
\* accumulate: fold bin k into the accumulator
accumulate(st, src, k) ==
    [st EXCEPT !.value.m_phase = <<@[1] + phase(src, k)[1], @[2] + phase(src, k)[2]>>,
               !.value.m_magnitude = @ + magnitudeRaw(src, k),
               !.coherence = @ + coherence(src, k)]

\* a variant that substitutes the direction (1, 0) when the phasors cancel
beforeSplineFallback(value, count) ==
    LET x == IF value.m_phase = <<0, 0>> THEN 1 ELSE value.m_phase[1]
        y == value.m_phase[2]
        M == value.m_magnitude
        n2 == (x * x + y * y) * count * count
    IN [real |-> Root(Sgn(x) * Sgn(M), x * x * M * M, n2),
        imag |-> Root(Sgn(y) * Sgn(M), y * y * M * M, n2)]

\* a variant that scales by the magnitude sum instead of its mean
beforeSplineMagnitudeSum(value, count) ==
    LET x == value.m_phase[1]
        y == value.m_phase[2]
        M == value.m_magnitude
        n2 == x * x + y * y
    IN [real |-> Root(Sgn(x) * Sgn(M), x * x * M * M, n2),
        imag |-> Root(Sgn(y) * Sgn(M), y * y * M * M, n2)]

\* beforeSpline: c = m_phase / count; c /= |c|; c *= m_magnitude / count.
\* With m_phase = (x, y): real = x * M / (count * sqrt(x^2 + y^2)), and 0/0 is NaN.
beforeSpline(value, count) ==
    LET x == value.m_phase[1]
        y == value.m_phase[2]
        M == value.m_magnitude
        n2 == (x * x + y * y) * count * count
    IN [real |-> Root(Sgn(x) * Sgn(M), x * x * M * M, n2),
        imag |-> Root(Sgn(y) * Sgn(M), y * y * M * M, n2)]

\* a variant that interleaves real and imaginary parts
SegmentRecordInterleaved(ac, c) ==
    <<ac[1].real, ac[1].imag, ac[2].real, ac[2].imag,
      ac[3].real, ac[3].imag, ac[4].real, ac[4].imag,
      c[1], c[2], c[3], c[4]>>

\* the 12 floats of one segment, in the order they are stored
SegmentRecord(ac, c) ==
    <<ac[1].real, ac[2].real, ac[3].real, ac[4].real,
      ac[1].imag, ac[2].imag, ac[3].imag, ac[4].imag,
      c[1], c[2], c[3], c[4]>>

\* storing the floats of rec at C++ indexes i, i + 1, ... of v; only the
\* stores that fall inside the vector change it
Store(v, i, rec) ==
    IF i >= Len(v) THEN v
    ELSE IF i + Len(rec) <= Len(v)
    THEN SubSeq(v, 1, i) \o rec \o SubSeq(v, i + Len(rec) + 1, Len(v))
    ELSE SubSeq(v, 1, i) \o SubSeq(rec, 1, Len(v) - i)

\* the early return of collected, lines 115-118: the segment is reported and
\* dropped, nothing else changes
DropSegment(st) ==
    [st EXCEPT !.calls = Append(@, [at |-> st.i, written |-> FALSE])]

\* the stores of collected, lines 120-134.  A store past the end of the vector
\* is undefined behaviour: with ub = "benign" the build survives it (the store
\* lands outside the vector's elements), with ub = "crash" the process dies.
WriteSegment(st, ac, c, ub) ==
    LET rec == SegmentRecord(ac, c)
        size == Len(st.vertices)
        oob == st.i + Len(rec) > size
    IN IF oob /\ ub = "crash"
       THEN [st EXCEPT !.calls = Append(@, [at |-> st.i, written |-> TRUE]),
                       !.outOfBounds = TRUE,
                       !.crashed = TRUE]
       ELSE [st EXCEPT
               !.outOfBounds = @ \/ oob,
               !.vertices = Store(@, st.i, rec),
               !.calls = Append(@, [at |-> st.i, written |-> TRUE]),
               !.verticiesCount = @ + 1,
               !.i = @ + PointsPerSegment,
               !.value = reset(@),
               !.coherence = 0]

\* a variant that counts the segments it drops
collectedCountsDropped(st, maxBufferSize, ac, c, ub) ==
    IF st.i > maxBufferSize
    THEN [DropSegment(st) EXCEPT !.verticiesCount = @ + 1]
    ELSE WriteSegment(st, ac, c, ub)

\* a variant that clears the accumulator on the dropped path too
collectedResetOnDrop(st, maxBufferSize, ac, c, ub) ==
    IF st.i > maxBufferSize
    THEN [DropSegment(st) EXCEPT !.value = reset(@), !.coherence = 0]
    ELSE WriteSegment(st, ac, c, ub)

\* collected: the vertex emitter
collected(st, maxBufferSize, ac, c, ub) ==
    IF st.i > maxBufferSize
    THEN DropSegment(st)
    ELSE WriteSegment(st, ac, c, ub)

(* ---- iterateForSpline (shared routine, modelled from the spec) -------- *)
\* the octave band bin k falls into: pointsPerOctave bands per octave
BandOf(pointsPerOctave, src, k) == (pointsPerOctave * k) \div src.binsPerOctave

\* a band closes: its control point enters the 4-point window and the
\* finished segment goes to the emitter
CloseBand(st, maxBufferSize, ub) ==
    LET cp == beforeSpline(st.value, st.count)
        ac == <<st.ac[2], st.ac[3], st.ac[4], cp>>
        cm == Ratio(st.coherence, st.count)
    IN collected([st EXCEPT !.ac = ac, !.count = 0], maxBufferSize,
                 ac, <<cm, cm, cm, cm>>, ub)

RECURSIVE IterateBins(_, _, _, _, _, _)
IterateBins(st, k, src, pointsPerOctave, maxBufferSize, ub) ==
    IF st.crashed THEN st
    ELSE IF k >= src.size
    THEN IF st.count > 0 THEN CloseBand(st, maxBufferSize, ub) ELSE st
    ELSE LET b == BandOf(pointsPerOctave, src, k)
             closed == IF st.count > 0 /\ b # st.band
                       THEN CloseBand(st, maxBufferSize, ub) ELSE st
         IN IF closed.crashed THEN closed
            ELSE IterateBins(accumulate([closed EXCEPT !.band = b, !.count = @ + 1], src, k),
                             k + 1, src, pointsPerOctave, maxBufferSize, ub)

\* a resolution of 0 points per octave yields no band at all
iterateForSpline(st, src, pointsPerOctave, maxBufferSize, ub) ==
    IF pointsPerOctave = 0 THEN st
    ELSE IterateBins(st, 0, src, pointsPerOctave, maxBufferSize, ub)
(* ---- the configuration owner and the control thread ------------------- *)
\* the coherence threshold lies in [0, 1]; the control thread offers coherence
\* gating with a positive threshold, or none
Thresholds == {0, 1}

Plots ==
    {p \in [kind : {"plot"}, pointsPerOctave : 0..MaxPPO, coherence : BOOLEAN,
            coherenceThreshold : Thresholds] :
        p.coherence = (p.coherenceThreshold > 0)}

NoParent == [kind |-> "none", pointsPerOctave |-> 0, coherence |-> FALSE,
             coherenceThreshold |-> 0]

OtherItem == [kind |-> "other", pointsPerOctave |-> 0, coherence |-> FALSE,
              coherenceThreshold |-> 0]

Parents == {NoParent, OtherItem} \cup Plots

Config(ppo, coh, thr) ==
    [pointsPerOctave |-> ppo, coherence |-> coh, coherenceThreshold |-> thr]

(* ---- GL context ------------------------------------------------------- *)
Op(name, arg) == [op |-> name, arg |-> arg]

NoStorage == -1

GLInit == [buffers |-> 0, arrays |-> 0,
           storage |-> [id \in 1..MaxGen |-> NoStorage],
           attribs |-> [id \in 1..MaxGen |-> {}],
           boundArray |-> 0, boundBuffer |-> 0, enabled |-> {}]

\* the effect of one GL call on the context
GLStep(g, o) ==
    IF o.op = "glGenBuffers" THEN [g EXCEPT !.buffers = @ + 1]
    ELSE IF o.op = "glGenVertexArrays" THEN [g EXCEPT !.arrays = @ + 1]
    ELSE IF o.op = "glBindVertexArray" THEN [g EXCEPT !.boundArray = o.arg]
    ELSE IF o.op = "glBindBuffer" THEN [g EXCEPT !.boundBuffer = o.arg]
    ELSE IF o.op = "glBufferData"
    THEN IF g.boundBuffer \in 1..g.buffers
         THEN [g EXCEPT !.storage[g.boundBuffer] = o.arg] ELSE g
    ELSE IF o.op = "glVertexAttribPointer"
    THEN IF g.boundArray \in 1..g.arrays
         THEN [g EXCEPT !.attribs[g.boundArray] = @ \cup {o.arg}] ELSE g
    ELSE IF o.op = "glEnableVertexAttribArray" THEN [g EXCEPT !.enabled = @ \cup {o.arg}]
    ELSE IF o.op = "glDisableVertexAttribArray" THEN [g EXCEPT !.enabled = @ \ {o.arg}]
    ELSE g

RECURSIVE GLRun(_, _)
GLRun(g, ops) == IF ops = <<>> THEN g ELSE GLRun(GLStep(g, Head(ops)), Tail(ops))

\* std::vector::resize: the prefix is kept, new elements are 0.0f
Resize(v, n) ==
    IF n <= Len(v) THEN SubSeq(v, 1, n)
    ELSE v \o [j \in 1..(n - Len(v)) |-> Zero]

BoolAsInt(b) == IF b THEN 1 ELSE 0

(* ---- NyquistSeriesRenderer::NyquistSeriesRenderer --------------------- *)
NoPass == [outcome |-> "none", source |-> NoSource,
           config |-> Config(0, FALSE, 0), maxBufferSize |-> 0, sizeBefore |-> 0, i |-> 0,
           verticiesCount |-> 0, calls |-> <<>>, resized |-> FALSE,
           refresh |-> FALSE, value |-> NyquistSplineValue(<<0, 0>>, 0),
           coherence |-> 0, previous |-> "other"]

\* the flag as the base class constructor leaves it: the first pass refreshes
InitialRefreshBuffers == TRUE

Init ==
    /\ parent = NoParent
    /\ m_pointsPerOctave = 0
    /\ m_coherenceThreshold = 0
    /\ m_coherence = FALSE
    /\ m_vertices = <<>>
    /\ m_refreshBuffers = InitialRefreshBuffers
    /\ m_vertexBufferId = 0
    /\ m_vertexArrayId = 0
    /\ gl = GLInit
    /\ glLog = <<>>
    /\ last = NoPass
    /\ hist = [synced |-> Config(0, FALSE, 0), completed |-> FALSE]
    /\ handler = "constructor"
    /\ crashed = FALSE

(* ---- NyquistSeriesRenderer::renderSeries ------------------------------ *)
\* a variant that forgets the size test
SourceEmptyInactiveOnly(src) == ~src.active

\* the early return of lines 46-47
SourceEmpty(src) == ~src.active \/ src.size = 0

\* unsigned int maxBufferSize = m_pointsPerOctave * 12 * 12 (the products of
\* the model stay far below 2^32, so the unsigned arithmetic never wraps)
MaxBufferSize(pointsPerOctave) ==
    pointsPerOctave * MaxOctaveBands * PointsPerSegment

\* a variant that only ever grows the vector
NeedsResizeGrowOnly(size, maxBufferSize) == size < maxBufferSize

\* m_vertices.size() != maxBufferSize
NeedsResize(size, maxBufferSize) == size # maxBufferSize

\* a variant that does not raise the flag on a resize
NeedsRefreshFlagOnly(refreshBuffers, resized) == refreshBuffers

\* a variant that reallocates in every frame
NeedsRefreshAlways(refreshBuffers, resized) == TRUE

\* m_refreshBuffers once lines 51-54 ran
NeedsRefresh(refreshBuffers, resized) == refreshBuffers \/ resized

\* lines 140-146
UniformOps(threshold, alpha) ==
    <<Op("uniform:matrix", 0), Op("uniform:screen", 0), Op("uniform:width", 0),
      Op("uniform:coherenceThreshold", threshold),
      Op("uniform:coherenceAlpha", BoolAsInt(alpha))>>

\* lines 148-151
GenOps(refresh, bufferId, arrayId) ==
    IF refresh
    THEN <<Op("glGenBuffers", bufferId), Op("glGenVertexArrays", arrayId)>>
    ELSE <<>>

\* lines 153-154
BindOps(bufferId, arrayId) ==
    <<Op("glBindVertexArray", arrayId), Op("glBindBuffer", bufferId)>>

\* lines 156-164
AllocOps(refresh, maxBufferSize) ==
    IF refresh
    THEN <<Op("glBufferData", maxBufferSize), Op("glVertexAttribPointer", 0),
           Op("glVertexAttribPointer", 1), Op("glVertexAttribPointer", 2)>>
    ELSE <<>>

\* a variant that disables the attributes in the order they were enabled
DrawOpsForwardDisable(verticiesCount) ==
    <<Op("glBufferSubData", PointsPerSegment * verticiesCount),
      Op("glEnableVertexAttribArray", 0), Op("glEnableVertexAttribArray", 1),
      Op("glEnableVertexAttribArray", 2),
      Op("glDrawArrays", verticiesCount),
      Op("glDisableVertexAttribArray", 0), Op("glDisableVertexAttribArray", 1),
      Op("glDisableVertexAttribArray", 2)>>

\* lines 165-173
DrawOps(verticiesCount) ==
    <<Op("glBufferSubData", PointsPerSegment * verticiesCount),
      Op("glEnableVertexAttribArray", 0), Op("glEnableVertexAttribArray", 1),
      Op("glEnableVertexAttribArray", 2),
      Op("glDrawArrays", verticiesCount),
      Op("glDisableVertexAttribArray", 2), Op("glDisableVertexAttribArray", 1),
      Op("glDisableVertexAttribArray", 0)>>

\* a variant that takes any parent for a NyquistPlot (a static_cast)
IsNyquistPlotAnyParent(p) == p.kind # "none"

\* dynamic_cast<NyquistPlot *>(m_item->parent()) succeeds (line 182)
IsNyquistPlot(p) == p.kind = "plot"

\* a variant that reads the owner's configuration during the pass
PassConfigFromOwner ==
    IF IsNyquistPlot(parent)
    THEN Config(parent.pointsPerOctave, parent.coherence, parent.coherenceThreshold)
    ELSE Config(m_pointsPerOctave, m_coherence, m_coherenceThreshold)

\* the configuration the pass works from: the members read at lines 50, 137,
\* 145 and 146
PassConfig == Config(m_pointsPerOctave, m_coherence, m_coherenceThreshold)

\* a variant whose early return comes after the resize
RenderSkippedAfterResize(src) ==
    /\ SourceEmpty(src)
    /\ last' = [NoPass EXCEPT !.outcome = "skipped", !.source = src]
    /\ glLog' = <<>>
    /\ handler' = "renderSeries"
    /\ m_vertices' = Resize(m_vertices, MaxBufferSize(m_pointsPerOctave))
    /\ UNCHANGED <<parent, m_pointsPerOctave, m_coherence, m_coherenceThreshold,
                   m_refreshBuffers, m_vertexBufferId, m_vertexArrayId,
                   gl, hist, crashed>>

RenderSkipped(src) ==
    /\ SourceEmpty(src)
    /\ last' = [NoPass EXCEPT !.outcome = "skipped", !.source = src]
    /\ glLog' = <<>>
    /\ handler' = "renderSeries"
    /\ UNCHANGED <<parent, m_pointsPerOctave, m_coherence, m_coherenceThreshold,
                   m_vertices, m_refreshBuffers, m_vertexBufferId, m_vertexArrayId,
                   gl, hist, crashed>>

\* the locals of renderSeries when the iteration starts, lines 50-99
PassStart(cfg, count0, value0, coherence0) ==
    LET maxBufferSize == MaxBufferSize(cfg.pointsPerOctave)
        resized == NeedsResize(Len(m_vertices), maxBufferSize)
    IN [vertices |-> IF resized THEN Resize(m_vertices, maxBufferSize)
                     ELSE m_vertices,
        i |-> 0, verticiesCount |-> count0,
        value |-> value0, coherence |-> coherence0,
        calls |-> <<>>, outOfBounds |-> FALSE, crashed |-> FALSE,
        count |-> 0, band |-> 0,
        ac |-> <<ComplexZero, ComplexZero, ComplexZero, ComplexZero>>]

\* a variant whose accumulator outlives the pass
EmitCarriedAccumulator(src, cfg, ub) ==
    iterateForSpline(PassStart(cfg, 0, last.value, last.coherence), src,
                     cfg.pointsPerOctave, MaxBufferSize(cfg.pointsPerOctave), ub)

\* a variant whose vertex count outlives the pass
EmitCarriedCount(src, cfg, ub) ==
    iterateForSpline(PassStart(cfg, last.verticiesCount,
                               NyquistSplineValue(<<0, 0>>, 0), 0), src,
                     cfg.pointsPerOctave, MaxBufferSize(cfg.pointsPerOctave), ub)

\* accumulation and emission, lines 50-138
Emit(src, cfg, ub) ==
    iterateForSpline(PassStart(cfg, 0, NyquistSplineValue(<<0, 0>>, 0), 0), src,
                     cfg.pointsPerOctave, MaxBufferSize(cfg.pointsPerOctave), ub)

\* what the call before this pass was: a skipped renderSeries(), a completed
\* pass over the same source and configuration, or anything else
Previous(src, cfg) ==
    IF handler # "renderSeries" THEN "other"
    ELSE IF last.outcome = "skipped" THEN "skipped"
    ELSE IF last.outcome = "completed" /\ last.source = src /\ last.config = cfg
    THEN "same"
    ELSE "other"

PassRecord(src, cfg, st) ==
    [outcome |-> IF st.crashed THEN "crashed" ELSE "completed",
     source |-> src,
     config |-> cfg,
     maxBufferSize |-> MaxBufferSize(cfg.pointsPerOctave),
     sizeBefore |-> Len(m_vertices),
     i |-> st.i, verticiesCount |-> st.verticiesCount, calls |-> st.calls,
     resized |-> NeedsResize(Len(m_vertices), MaxBufferSize(cfg.pointsPerOctave)),
     refresh |-> NeedsRefresh(m_refreshBuffers,
                              NeedsResize(Len(m_vertices),
                                          MaxBufferSize(cfg.pointsPerOctave))),
     value |-> st.value, coherence |-> st.coherence,
     previous |-> Previous(src, cfg)]

\* the pass runs to its end (an out-of-bounds store, if any, was survived)
RenderCompleted(src) ==
    LET cfg == PassConfig
        maxBufferSize == MaxBufferSize(cfg.pointsPerOctave)
        st == Emit(src, cfg, "benign")
        pass == PassRecord(src, cfg, st)
        refresh == NeedsRefresh(m_refreshBuffers,
                                NeedsResize(Len(m_vertices), maxBufferSize))
        bufferId == IF refresh THEN gl.buffers + 1 ELSE m_vertexBufferId
        arrayId == IF refresh THEN gl.arrays + 1 ELSE m_vertexArrayId
    IN /\ ~SourceEmpty(src)
       /\ refresh => gl.buffers < MaxGen
       /\ m_vertices' = st.vertices
       /\ last' = pass
       /\ m_refreshBuffers' = FALSE
       /\ m_vertexBufferId' = bufferId
       /\ m_vertexArrayId' = arrayId
       /\ glLog' = UniformOps(cfg.coherenceThreshold, cfg.coherence)
                   \o GenOps(refresh, bufferId, arrayId)
                   \o BindOps(bufferId, arrayId)
                   \o AllocOps(refresh, maxBufferSize)
                   \o DrawOps(st.verticiesCount)
       /\ gl' = GLRun(gl, glLog')
       /\ hist' = [hist EXCEPT !.completed = TRUE]
       /\ handler' = "renderSeries"
       /\ UNCHANGED <<parent, m_pointsPerOctave, m_coherence, m_coherenceThreshold,
                      crashed>>

\* the process dies on the first out-of-bounds store of the pass
RenderCrashed(src) ==
    LET cfg == PassConfig
        st == Emit(src, cfg, "crash")
        pass == PassRecord(src, cfg, st)
    IN /\ ~SourceEmpty(src)
       /\ st.crashed
       /\ m_vertices' = st.vertices
       /\ last' = pass
       /\ m_refreshBuffers' = pass.refresh
       /\ glLog' = <<>>
       /\ crashed' = TRUE
       /\ handler' = "renderSeries"
       /\ UNCHANGED <<parent, m_pointsPerOctave, m_coherence, m_coherenceThreshold,
                      m_vertexBufferId, m_vertexArrayId, gl, hist>>

RenderSeries ==
    /\ ~crashed
    /\ \E src \in Sources :
          \/ RenderSkipped(src)
          \/ RenderCompleted(src)
          \/ RenderCrashed(src)

(* ---- NyquistSeriesRenderer::synchronize ------------------------------- *)

Synchronize ==
    /\ ~crashed
    /\ IF IsNyquistPlot(parent)
       THEN /\ m_pointsPerOctave' = parent.pointsPerOctave
            /\ m_coherence' = parent.coherence
            /\ m_coherenceThreshold' = parent.coherenceThreshold
            /\ hist' = [hist EXCEPT !.synced = Config(parent.pointsPerOctave,
                                                      parent.coherence,
                                                      parent.coherenceThreshold)]
       ELSE UNCHANGED <<m_pointsPerOctave, m_coherence, m_coherenceThreshold, hist>>
    /\ handler' = "synchronize"
    /\ UNCHANGED <<parent, m_vertices, m_refreshBuffers, m_vertexBufferId,
                   m_vertexArrayId, gl, glLog, last, crashed>>

(* ---- the control thread ----------------------------------------------- *)
\* the control thread changes the plot's configuration, or the item is reparented
ControlUpdate ==
    /\ ~crashed
    /\ \E p \in Parents : p # parent /\ parent' = p
    /\ handler' = "control"
    /\ UNCHANGED <<m_pointsPerOctave, m_coherence, m_coherenceThreshold, m_vertices,
                   m_refreshBuffers, m_vertexBufferId, m_vertexArrayId, gl, glLog,
                   last, hist, crashed>>

Next == RenderSeries \/ Synchronize \/ ControlUpdate

Spec == Init /\ [][Next]_vars

(* ---- render passes under one synchronized configuration --------------- *)
\* the plots the passes below are synchronized with
PassPlots ==
    [kind : {"plot"}, pointsPerOctave : 0..MaxPassPPO, coherence : BOOLEAN,
     coherenceThreshold : Thresholds]

\* the renderer after its constructor and one synchronize() with a plot
InitPass ==
    \E p \in PassPlots :
        /\ parent = p
        /\ m_pointsPerOctave = p.pointsPerOctave
        /\ m_coherence = p.coherence
        /\ m_coherenceThreshold = p.coherenceThreshold
        /\ m_vertices = <<>>
        /\ m_refreshBuffers = InitialRefreshBuffers
        /\ m_vertexBufferId = 0
        /\ m_vertexArrayId = 0
        /\ gl = GLInit
        /\ glLog = <<>>
        /\ last = NoPass
        /\ hist = [synced |-> Config(p.pointsPerOctave, p.coherence,
                                     p.coherenceThreshold),
                   completed |-> FALSE]
        /\ handler = "synchronize"
        /\ crashed = FALSE

\* frames in which the configuration does not change: only renderSeries runs
NextPass == RenderSeries

SpecPass == InitPass /\ [][NextPass]_vars

(* ======================================================================= *)
(* Properties                                                              *)
(* ======================================================================= *)
Capacity(pointsPerOctave) == pointsPerOctave * 12 * 12

Snapshot == <<m_pointsPerOctave, m_coherence, m_coherenceThreshold>>

Completed == last.outcome = "completed"

\* C1: after any render pass the number of vertices emitted in that pass times
\* 12 is at most the capacity of the vertex buffer.
C1_EmittedWithinCapacity ==
    Completed => last.verticiesCount * 12 <= Len(m_vertices)

\* C2: the emitter writes a segment exactly when cursor + 12 does not exceed
\* the capacity, so every float index written is below the capacity, and a
\* segment that does not fit is reported and not written.
C2_WriteOnlyWhenItFits ==
    \A n \in 1..Len(last.calls) :
        last.calls[n].written <=> (last.calls[n].at + 12 <= last.maxBufferSize)

\* C3: after every render pass that is not skipped the capacity of the vertex
\* buffer is pointsPerOctave * 12 * 12 for the snapshot of that frame, however
\* many bands were populated.
C3_CapacityFormula ==
    Completed => Len(m_vertices) = Capacity(last.config.pointsPerOctave)

C3_Witness ==
    /\ Completed
    /\ last.config.pointsPerOctave = 1
    /\ last.verticiesCount \in 1..(MaxOctaveBands - 1)
    /\ last.sizeBefore = Capacity(1)

Reallocates(pass, log) ==
    \/ pass.resized
    \/ \E n \in 1..Len(log) : log[n].op \in {"glBufferData", "glVertexAttribPointer"}

\* C4: a render pass resizes the vector or reallocates GPU storage only if it
\* is the first completed pass or the capacity implied by pointsPerOctave
\* differs from the capacity the previous completed pass left.
C4_ReallocOnlyOnChange ==
    [][(handler' = "renderSeries" /\ last'.outcome = "completed"
        /\ Reallocates(last', glLog'))
       => (~hist.completed \/ Len(m_vertices) # Capacity(m_pointsPerOctave))]_vars

C4_Witness ==
    /\ handler = "renderSeries"
    /\ Completed
    /\ last.config.pointsPerOctave > 0
    /\ last.sizeBefore = Capacity(last.config.pointsPerOctave)
    /\ ~Reallocates(last, glLog)
    /\ \E n \in 1..Len(glLog) : glLog[n].op = "glBufferSubData"

\* C5: in every render pass that is not skipped the buffer and the vertex
\* array that are bound, updated and drawn from were generated in that pass
\* or before, and the bound buffer has storage of the current capacity.
C5_ReadyBeforeUse ==
    Completed =>
        /\ gl.boundBuffer \in 1..gl.buffers
        /\ gl.boundArray \in 1..gl.arrays
        /\ gl.boundBuffer = m_vertexBufferId
        /\ gl.boundArray = m_vertexArrayId
        /\ gl.storage[gl.boundBuffer] = Capacity(last.config.pointsPerOctave)
        /\ gl.attribs[gl.boundArray] = {0, 1, 2}

C5_Witness ==
    /\ Completed
    /\ last.config.pointsPerOctave = 0
    /\ ~last.resized
    /\ gl.buffers = 1
    /\ gl.boundBuffer = 1

\* C6: the renderer generates at most one vertex-buffer identity and at most
\* one vertex-array identity, whatever pointsPerOctave does.
C6_SingleIdentity == gl.buffers <= 1 /\ gl.arrays <= 1

IsOrderedOp(o) ==
    o.op \notin {"glGenBuffers", "glGenVertexArrays", "glBindVertexArray"}

Shape(o) ==
    IF o.op \in {"glVertexAttribPointer", "glEnableVertexAttribArray",
                 "glDisableVertexAttribArray"}
    THEN <<o.op, o.arg>> ELSE <<o.op, 0>>

ExpectedOrder(reallocated) ==
    <<<<"uniform:matrix", 0>>, <<"uniform:screen", 0>>, <<"uniform:width", 0>>,
      <<"uniform:coherenceThreshold", 0>>, <<"uniform:coherenceAlpha", 0>>,
      <<"glBindBuffer", 0>>>>
    \o (IF reallocated
        THEN <<<<"glBufferData", 0>>, <<"glVertexAttribPointer", 0>>,
               <<"glVertexAttribPointer", 1>>, <<"glVertexAttribPointer", 2>>>>
        ELSE <<>>)
    \o <<<<"glBufferSubData", 0>>,
         <<"glEnableVertexAttribArray", 0>>, <<"glEnableVertexAttribArray", 1>>,
         <<"glEnableVertexAttribArray", 2>>,
         <<"glDrawArrays", 0>>,
         <<"glDisableVertexAttribArray", 2>>, <<"glDisableVertexAttribArray", 1>>,
         <<"glDisableVertexAttribArray", 0>>>>

\* C7: a render pass that is not skipped sets the uniforms, binds the buffer,
\* reallocates and declares the attributes only when a refresh is due, does
\* the partial update, enables attributes 0, 1, 2, draws, and disables 2, 1, 0;
\* no attribute stays enabled.
C7_GpuOrder ==
    Completed =>
        LET core == SelectSeq(glLog, IsOrderedOp)
        IN /\ [n \in 1..Len(core) |-> Shape(core[n])] = ExpectedOrder(last.refresh)
           /\ gl.enabled = {}

C7_Witness ==
    /\ Completed
    /\ ~last.refresh
    /\ last.verticiesCount > 0
    /\ Len(glLog) = 15

\* C8: with the source inactive or of size 0, renderSeries changes neither the
\* vertex buffer, the refresh flag, the buffer identities, the snapshot nor the
\* GL context, and issues no GL call.
C8_SkippedPassIsNoOp ==
    [][(handler' = "renderSeries"
        /\ (~last'.source.active \/ last'.source.size = 0))
       => /\ UNCHANGED <<m_vertices, m_refreshBuffers, m_vertexBufferId,
                         m_vertexArrayId, Snapshot, gl>>
          /\ glLog' = <<>>]_vars

C8_Witness ==
    /\ handler = "renderSeries"
    /\ last.outcome = "skipped"
    /\ last.source.active
    /\ last.source.size = 0
    /\ hist.completed
    /\ m_vertices # <<>>
    /\ Len(m_vertices) # Capacity(m_pointsPerOctave)

\* C9: synchronize with an absent or foreign parent leaves pointsPerOctave,
\* the coherence flag and the threshold as they were and does not fail; with a
\* NyquistPlot as parent it sets all three to the plot's values.
C9_SynchronizeKeepsOrCopies ==
    [][handler' = "synchronize"
       => /\ ~crashed'
          /\ IF parent.kind = "plot"
             THEN Snapshot' = <<parent.pointsPerOctave, parent.coherence,
                                parent.coherenceThreshold>>
             ELSE Snapshot' = Snapshot]_vars

C9_Witness ==
    /\ handler = "synchronize"
    /\ parent.kind = "other"
    /\ m_pointsPerOctave = 1
    /\ m_coherence
    /\ m_coherenceThreshold = 1

\* C10: only synchronize changes the snapshot, and a render pass takes its
\* capacity, its band grouping and its coherence uniforms from the values the
\* latest successful synchronize copied, whatever the owner holds by then.
C10_PassUsesSyncedSnapshot ==
    [][/\ handler' # "synchronize" => Snapshot' = Snapshot
       /\ (handler' = "renderSeries" /\ last'.outcome # "skipped")
          => /\ last'.config = hist.synced
             /\ last'.maxBufferSize = Capacity(hist.synced.pointsPerOctave)
             /\ Len(m_vertices') = Capacity(hist.synced.pointsPerOctave)
             /\ last'.outcome = "completed"
                => /\ glLog'[4] = Op("uniform:coherenceThreshold",
                                     hist.synced.coherenceThreshold)
                   /\ glLog'[5] = Op("uniform:coherenceAlpha",
                                     BoolAsInt(hist.synced.coherence))]_vars

C10_Witness ==
    /\ handler = "renderSeries"
    /\ Completed
    /\ parent.kind = "plot"
    /\ parent.pointsPerOctave # m_pointsPerOctave
    /\ parent.coherenceThreshold # m_coherenceThreshold
    /\ last.config.pointsPerOctave = 1
    /\ last.verticiesCount > 0

(* ---- the bands of a pass, counted from the source's bins -------------- *)
Bins(pass) == 0 .. (pass.source.size - 1)

BandIndex(pass, k) ==
    (pass.config.pointsPerOctave * k) \div pass.source.binsPerOctave

\* the bands at least one bin of the frame falls into
NonEmptyBands(pass) ==
    IF pass.config.pointsPerOctave = 0 THEN {}
    ELSE {BandIndex(pass, k) : k \in Bins(pass)}

\* the n-th non-empty band in frequency order, and its bins
NthBand(pass, n) ==
    CHOOSE b \in NonEmptyBands(pass) :
        Cardinality({c \in NonEmptyBands(pass) : c < b}) = n - 1

BinsOfBand(pass, n) == {k \in Bins(pass) : BandIndex(pass, k) = NthBand(pass, n)}

\* the callbacks of a pass that stored their segment, and those that dropped it
WrittenCalls(pass) == {n \in 1 .. Len(pass.calls) : pass.calls[n].written}

DroppedCalls(pass) == {n \in 1 .. Len(pass.calls) : ~pass.calls[n].written}

\* C11: at the end of a render pass the emitted vertex count equals the number
\* of bands of the frame that received at least one bin (the claim as stated).
C11_CountIsNonEmptyBands ==
    Completed => last.verticiesCount = Cardinality(NonEmptyBands(last))

\* C11: a band that received no bin produces no segment: the emitter is called
\* once per non-empty band and never else; the emitted vertex count at the end
\* of the pass is the number of non-empty bands minus the segments the overflow
\* guard dropped, hence equal to it when none was dropped.
C11_CountIsBandsLessDropped ==
    Completed =>
        /\ Len(last.calls) = Cardinality(NonEmptyBands(last))
        /\ last.verticiesCount
              = Cardinality(NonEmptyBands(last)) - Cardinality(DroppedCalls(last))
        /\ DroppedCalls(last) = {} =>
              last.verticiesCount = Cardinality(NonEmptyBands(last))

\* a completed pass over a frame with empty bands between the non-empty ones
C11_Witness ==
    /\ Completed
    /\ last.verticiesCount > 1
    /\ \E b \in 0 .. MaxPassPPO * MaxSize :
          /\ b \notin NonEmptyBands(last)
          /\ \E lo, hi \in NonEmptyBands(last) : lo < b /\ b < hi

\* the floats of the written region [0, count * 12) that the vector holds
WrittenRegion(vertices, count) ==
    SubSeq(vertices, 1,
           IF count * PointsPerSegment < Len(vertices)
           THEN count * PointsPerSegment ELSE Len(vertices))

\* C12: two render passes in a row over the same source data with the same
\* configuration snapshot emit the same vertex count and leave the same floats
\* in the written region, whether or not either of them reallocated.
C12_RepeatedPassIsIdentical ==
    [][(/\ handler = "renderSeries" /\ last.outcome = "completed"
        /\ handler' = "renderSeries" /\ last'.outcome = "completed"
        /\ last'.source = last.source
        /\ Snapshot' = Snapshot)
       => /\ last'.verticiesCount = last.verticiesCount
          /\ WrittenRegion(m_vertices', last'.verticiesCount)
                = WrittenRegion(m_vertices, last.verticiesCount)]_vars

\* the second of two identical passes: it wrote segments and did not reallocate,
\* and the accumulator of the first was left non-zero by a dropped segment
C12_Witness ==
    /\ Completed
    /\ last.previous = "same"
    /\ ~last.refresh
    /\ last.verticiesCount > 0
    /\ last.coherence # 0

(* ---- what a band's bins add up to -------------------------------------- *)
Term(pass, k, what) ==
    CASE what = "re" -> phase(pass.source, k)[1]
      [] what = "im" -> phase(pass.source, k)[2]
      [] what = "magnitude" -> magnitudeRaw(pass.source, k)
      [] what = "coherence" -> coherence(pass.source, k)

RECURSIVE SumOverBins(_, _, _)
SumOverBins(pass, S, what) ==
    IF S = {} THEN 0
    ELSE LET k == CHOOSE x \in S : TRUE
         IN Term(pass, k, what) + SumOverBins(pass, S \ {k}, what)

\* the phasors of the n-th non-empty band cancel
Cancels(pass, n) ==
    /\ SumOverBins(pass, BinsOfBand(pass, n), "re") = 0
    /\ SumOverBins(pass, BinsOfBand(pass, n), "im") = 0

\* the n-th callback stored its segment inside the vector
InVector(pass, n) ==
    /\ n \in WrittenCalls(pass)
    /\ pass.calls[n].at + PointsPerSegment <= Len(m_vertices)

\* C13: a band whose phasors cancel is neither skipped nor given a fallback
\* direction: its segment reaches the emitter like any other, and when it is
\* stored its newest control point is NaN in both parts; a pass dies only of a
\* store past the end of the vector, never of the undefined direction.
C13_CancelledBandYieldsNaN ==
    /\ Completed =>
          \A n \in 1 .. Cardinality(NonEmptyBands(last)) :
              Cancels(last, n) =>
                  /\ n <= Len(last.calls)
                  /\ InVector(last, n) =>
                        /\ m_vertices[last.calls[n].at + 4] = NaN
                        /\ m_vertices[last.calls[n].at + 8] = NaN
    /\ last.outcome = "crashed" =>
          \E n \in WrittenCalls(last) :
              last.calls[n].at + PointsPerSegment > last.maxBufferSize

\* a completed pass that stored and counted the segment of a cancelling band
C13_Witness ==
    /\ Completed
    /\ ~crashed
    /\ \E n \in 1 .. last.verticiesCount :
          /\ Cancels(last, n)
          /\ InVector(last, n)
          /\ m_vertices[last.calls[n].at + 4] = NaN

\* all bins of the n-th non-empty band have the same phase and magnitude
Uniform(pass, n) ==
    \A j, k \in BinsOfBand(pass, n) :
        /\ phase(pass.source, j) = phase(pass.source, k)
        /\ magnitudeRaw(pass.source, j) = magnitudeRaw(pass.source, k)

\* unitVector(p) * m for the phase p and magnitude m of bin k
UnitTimesMagnitude(pass, k) ==
    [real |-> Ratio(phase(pass.source, k)[1] * magnitudeRaw(pass.source, k), 1),
     imag |-> Ratio(phase(pass.source, k)[2] * magnitudeRaw(pass.source, k), 1)]

\* C14: a band whose bins all have the same phase p and the same magnitude m
\* gets the control point unitVector(p) * m, however many bins it has.
C14_UniformBandControlPoint ==
    Completed =>
        \A n \in 1 .. Len(last.calls) :
            (InVector(last, n) /\ Uniform(last, n)) =>
                \A k \in BinsOfBand(last, n) :
                    /\ m_vertices[last.calls[n].at + 4]
                          = UnitTimesMagnitude(last, k).real
                    /\ m_vertices[last.calls[n].at + 8]
                          = UnitTimesMagnitude(last, k).imag

\* a stored band of two bins with the same phase and magnitude
C14_Witness ==
    /\ Completed
    /\ \E n \in 1 .. Len(last.calls) :
          /\ InVector(last, n) /\ Uniform(last, n)
          /\ Cardinality(BinsOfBand(last, n)) = 2
          /\ m_vertices[last.calls[n].at + 4] = Ratio(1, 1)

\* the arguments the latest pass gave to a GL call
ArgsOf(name) == {glLog[j].arg : j \in {x \in 1 .. Len(glLog) : glLog[x].op = name}}

\* C15: a completed pass uploads 12 floats for each segment that passed the
\* overflow guard in this pass and draws one point for each of them: segments
\* of earlier passes and segments the guard dropped are not counted.
C15_UploadAndDrawThisPassOnly ==
    Completed =>
        /\ ArgsOf("glBufferSubData")
              = {PointsPerSegment * Cardinality(WrittenCalls(last))}
        /\ ArgsOf("glDrawArrays") = {Cardinality(WrittenCalls(last))}
        /\ last.verticiesCount = Len(last.calls) - Cardinality(DroppedCalls(last))

\* a pass that dropped a segment, right after a pass that emitted vertices too
C15_Witness ==
    /\ Completed
    /\ last.previous = "same"
    /\ DroppedCalls(last) # {}
    /\ last.verticiesCount > 0
    /\ ArgsOf("glDrawArrays") = {last.verticiesCount}

(* ---- the segment a band is expected to give ---------------------------- *)
\* the control point of the n-th non-empty band, from the band's own bins; the
\* window starts with zero points
ExpectedPoint(pass, n) ==
    IF n < 1 THEN ComplexZero
    ELSE beforeSpline(
             NyquistSplineValue(<<SumOverBins(pass, BinsOfBand(pass, n), "re"),
                                  SumOverBins(pass, BinsOfBand(pass, n), "im")>>,
                                SumOverBins(pass, BinsOfBand(pass, n), "magnitude")),
             Cardinality(BinsOfBand(pass, n)))

\* the mean coherence of the n-th non-empty band
ExpectedScalar(pass, n) ==
    Ratio(SumOverBins(pass, BinsOfBand(pass, n), "coherence"),
          Cardinality(BinsOfBand(pass, n)))

ExpectedRecord(pass, n) ==
    <<ExpectedPoint(pass, n - 3).real, ExpectedPoint(pass, n - 2).real,
      ExpectedPoint(pass, n - 1).real, ExpectedPoint(pass, n).real,
      ExpectedPoint(pass, n - 3).imag, ExpectedPoint(pass, n - 2).imag,
      ExpectedPoint(pass, n - 1).imag, ExpectedPoint(pass, n).imag,
      ExpectedScalar(pass, n), ExpectedScalar(pass, n),
      ExpectedScalar(pass, n), ExpectedScalar(pass, n)>>

\* the number of segments stored before the n-th callback
WrittenBefore(pass, n) == Cardinality({m \in WrittenCalls(pass) : m < n})

\* at every callback, and at the end of the pass, the cursor is 12 times the
\* count of segments stored so far
CursorTracksCount ==
    /\ last.i = PointsPerSegment * last.verticiesCount
    /\ last.verticiesCount = Cardinality(WrittenCalls(last))
    /\ \A n \in 1 .. Len(last.calls) :
          last.calls[n].at = PointsPerSegment * WrittenBefore(last, n)

\* every stored segment lies at the cursor's position of its callback: reals
\* at offsets 0-3, imaginary parts at 4-7, scalar controls at 8-11
RecordsInPlace ==
    \A n \in 1 .. Len(last.calls) :
        InVector(last, n) =>
            SubSeq(m_vertices, last.calls[n].at + 1,
                   last.calls[n].at + PointsPerSegment) = ExpectedRecord(last, n)

\* C16: throughout a pass the cursor is 12 times the emitted count; a stored
\* segment moves the cursor by 12 and the count by 1 and puts its 4 real parts,
\* 4 imaginary parts and 4 scalar controls at the 12 floats from the cursor's
\* previous position; the floats no segment of the pass was stored at are what
\* they were before the pass (zero where the vector grew).
C16_CursorAndLayout ==
    /\ [](Completed => (CursorTracksCount /\ RecordsInPlace))
    /\ [][(handler' = "renderSeries" /\ last'.outcome = "completed")
          => \A j \in (last'.i + 1) .. Len(m_vertices') :
                m_vertices'[j] = IF j <= Len(m_vertices) THEN m_vertices[j]
                                 ELSE Zero]_vars

\* a pass that stored several segments in front of floats an earlier, longer
\* pass left behind
C16_Witness ==
    /\ Completed
    /\ last.verticiesCount > 4
    /\ RecordsInPlace
    /\ \E j \in (last.i + 1) .. Len(m_vertices) : m_vertices[j] # Zero

\* the sums the accumulator holds at the end of a pass: those of the bins of
\* the bands from the n-th non-empty band on
SumsFrom(pass, n) ==
    LET S == UNION {BinsOfBand(pass, m) : m \in n .. Len(pass.calls)}
    IN [value |-> NyquistSplineValue(<<SumOverBins(pass, S, "re"),
                                       SumOverBins(pass, S, "im")>>,
                                     SumOverBins(pass, S, "magnitude")),
        coherence |-> SumOverBins(pass, S, "coherence")]

\* C17: a stored segment leaves the accumulator's phase, magnitude and
\* coherence sums at zero: a pass whose last segment was stored ends with all
\* three at zero, and the control point and scalar of every stored segment are
\* those of its own band's bins, with nothing of an earlier band in them.
C17_AccumulatorClearedAfterWrite ==
    Completed =>
        /\ (Len(last.calls) > 0 /\ Len(last.calls) \in WrittenCalls(last)) =>
              /\ last.value = NyquistSplineValue(<<0, 0>>, 0)
              /\ last.coherence = 0
        /\ \A n \in 1 .. Len(last.calls) :
              InVector(last, n) =>
                  /\ m_vertices[last.calls[n].at + 4] = ExpectedPoint(last, n).real
                  /\ m_vertices[last.calls[n].at + 8] = ExpectedPoint(last, n).imag
                  /\ m_vertices[last.calls[n].at + 12] = ExpectedScalar(last, n)

\* a pass that stored a band with non-zero sums and then a band of other bins
C17_Witness ==
    /\ Completed
    /\ Len(last.calls) \in WrittenCalls(last)
    /\ last.value = NyquistSplineValue(<<0, 0>>, 0)
    /\ \E n \in 2 .. Len(last.calls) :
          /\ InVector(last, n)
          /\ SumsFrom(last, n - 1).coherence > SumsFrom(last, n).coherence
          /\ m_vertices[last.calls[n].at + 4] # m_vertices[last.calls[n].at + 3]

\* the first callback of the pass whose segment the guard dropped
FirstDropped(pass) ==
    CHOOSE d \in DroppedCalls(pass) : \A n \in DroppedCalls(pass) : d <= n

\* C18: a callback that drops its segment changes nothing: the cursor and the
\* count stay where the last stored segment left them, the stored segments
\* stay in place, and the accumulator is not cleared, so at the end of the pass
\* it holds the sums of all bins from the first dropped band on.
C18_DroppedSegmentChangesNothing ==
    (Completed /\ DroppedCalls(last) # {}) =>
        /\ \A n \in DroppedCalls(last) : last.calls[n].at = last.i
        /\ last.i = PointsPerSegment * Cardinality(WrittenCalls(last))
        /\ last.verticiesCount = Cardinality(WrittenCalls(last))
        /\ last.value = SumsFrom(last, FirstDropped(last)).value
        /\ last.coherence = SumsFrom(last, FirstDropped(last)).coherence
        /\ RecordsInPlace

\* a pass whose last band was dropped and left its sums in the accumulator
C18_Witness ==
    /\ Completed
    /\ DroppedCalls(last) # {}
    /\ FirstDropped(last) > 1
    /\ last.value # NyquistSplineValue(<<0, 0>>, 0)
    /\ last.i > last.maxBufferSize

\* the GL calls of the latest pass
GLCalls == {glLog[j] : j \in 1 .. Len(glLog)}

\* C19: a pass that is not skipped ends with the refresh flag false; a skipped
\* pass touches neither the vector nor the flag, so a capacity change that was
\* synchronized stays pending, and the next pass that runs through resizes the
\* vector to the new capacity and allocates GPU storage of that capacity.
C19_PendingResizeSurvivesSkips ==
    /\ []((handler = "renderSeries" /\ Completed) => ~m_refreshBuffers)
    /\ [][/\ (handler' = "renderSeries" /\ last'.outcome = "skipped")
             => UNCHANGED <<m_vertices, m_refreshBuffers, m_pointsPerOctave>>
          /\ (/\ handler' = "renderSeries" /\ last'.outcome = "completed"
              /\ Len(m_vertices) # Capacity(m_pointsPerOctave))
             => /\ Len(m_vertices') = Capacity(m_pointsPerOctave)
                /\ last'.resized /\ last'.refresh
                /\ Op("glGenBuffers", m_vertexBufferId') \in GLCalls'
                /\ Op("glBufferData", Capacity(m_pointsPerOctave)) \in GLCalls'
                /\ ~m_refreshBuffers']_vars

\* a pass that ran through right after a skipped one and moved the vector from
\* the capacity of an earlier pass to the synchronized one
C19_Witness ==
    /\ handler = "renderSeries"
    /\ Completed
    /\ last.previous = "skipped"
    /\ last.sizeBefore > 0
    /\ last.resized /\ last.refresh
    /\ Len(m_vertices) = Capacity(m_pointsPerOctave)
    /\ ~m_refreshBuffers
====
